---- MODULE Spec2Model ----
(***************************************************************************)
(* A model of src/ormpoc/main.py: two mapped record types (Organization,   *)
(* User), the engine/session bootstrap, and the linear routine async_main  *)
(* that writes five records in one session and reads them back in a        *)
(* second one.  The backing store is the SQLite file test.db; its contents *)
(* when the process starts are whatever an earlier run left behind.        *)
(***************************************************************************)
EXTENDS Integers, Sequences, FiniteSets, TLC

VARIABLES
    pc,          \* the statement of async_main that runs next
    db,          \* test.db: the tables that exist and their rows
    prior,       \* test.db as it was when the process started
    engine,      \* "none" | "created" | "disposed"
    sess,        \* sess[1], sess[2]: the two sessions of async_main
    pending,     \* objects added to the write session and not yet flushed
    orgs,        \* Organization objects constructed in the write session
    usrs,        \* User objects constructed in the write session
    loaded,      \* Organization objects loaded by the read session
    users,       \* local `users` (line 183)
    any_users,   \* local `any_users` (line 184)
    goldman_sachs_pydantic,  \* local of line 189
    out,         \* what print() has written
    failedAt,    \* the statement an exception was raised in, or "none"
    exc          \* the exception that ended the run, or "none"

vars == <<pc, db, prior, engine, sess, pending, orgs, usrs, loaded, users,
          any_users, goldman_sachs_pydantic, out, failedAt, exc>>

----------------------------------------------------------------------------
(* Bounds *)

\* uuid.uuid4() draws from 1..MaxUUID
MaxUUID == 5
\* func.now() reads a clock in 1..MaxClock
MaxClock == 2

UUIDs == 1 .. MaxUUID
Clock == 1 .. MaxClock

----------------------------------------------------------------------------
(* Python values *)

\* An attribute that may be unset holds None or a one-element tuple.
None == << >>
Some(v) == << v >>

Range(s) == { s[i] : i \in 1 .. Len(s) }

\* The strings the program matches on are tuples of characters.
UpperChars == << "A", "B", "C", "D", "E", "F", "G", "H", "I", "J", "K", "L", "M",
                 "N", "O", "P", "Q", "R", "S", "T", "U", "V", "W", "X", "Y", "Z" >>
LowerChars == << "a", "b", "c", "d", "e", "f", "g", "h", "i", "j", "k", "l", "m",
                 "n", "o", "p", "q", "r", "s", "t", "u", "v", "w", "x", "y", "z" >>

GoldmanSachsName == << "G", "o", "l", "d", "m", "a", "n", " ", "S", "a", "c", "h", "s" >>
JPMorganChaseName == << "J", "P", "M", "o", "r", "g", "a", "n", " ", "C", "h", "a", "s", "e" >>
ChasePattern == << "%", "c", "h", "a", "s", "e", "%" >>

\* A Dict[str, str] is the tuple of its (key, value) items in insertion order.
DefaultDict == << >>
ChaseDict == << << "test", "foobar" >> >>

OrgVars == { "goldman_sachs", "chase" }
UserVars == { "user_alice", "user_bob", "user_dave" }

----------------------------------------------------------------------------
(* Strings, LIKE and JSON as the store computes them *)

\* The lower-case letter of every upper-case ASCII letter.
LowerOf ==
    [ c \in Range(UpperChars) |->
        LowerChars[CHOOSE i \in 1 .. Len(UpperChars) : UpperChars[i] = c] ]

\* ASCII lower-casing of one character.
Lower(c) == IF c \in DOMAIN LowerOf THEN LowerOf[c] ELSE c

LowerStr(s) == [ i \in 1 .. Len(s) |-> Lower(s[i]) ]

\* A LIKE that compares characters exactly, as a case-sensitive dialect does.
CharEqBinary(a, b) == a = b

\* SQLite's LIKE compares ASCII characters without regard to case.
CharEq(a, b) == Lower(a) = Lower(b)

\* name LIKE pat: % matches any run of characters, _ any one character.
RECURSIVE Like(_, _)
Like(pat, s) ==
    IF pat = << >> THEN s = << >>
    ELSE IF Head(pat) = "%"
         THEN \E k \in 0 .. Len(s) : Like(Tail(pat), SubSeq(s, k + 1, Len(s)))
    ELSE IF s = << >> THEN FALSE
    ELSE /\ (Head(pat) = "_" \/ CharEq(Head(pat), Head(s)))
         /\ Like(Tail(pat), Tail(s))

\* The JSON column: the text written for a Dict[str, str], as a tuple of tokens
\* <<kind, text>>, kind "p" for punctuation and "s" for a string literal.
RECURSIVE JsonItems(_)
JsonItems(d) ==
    IF d = << >> THEN << >>
    ELSE << << "s", d[1][1] >>, << "p", ":" >>, << "s", d[1][2] >> >>
         \o (IF Len(d) > 1 THEN << << "p", "," >> >> ELSE << >>)
         \o JsonItems(Tail(d))

json_dumps(d) == << << "p", "{" >> >> \o JsonItems(d) \o << << "p", "}" >> >>

IsStringToken(t) == t[1] = "s"

json_loads(text) ==
    LET strs == SelectSeq(text, IsStringToken)
    IN  [ i \in 1 .. (Len(strs) \div 2) |-> << strs[2 * i - 1][2], strs[2 * i][2] >> ]

\* Python's dict equality: the same items, in any order.
DictEq(a, b) == Range(a) = Range(b)

----------------------------------------------------------------------------
(* The mapped classes *)

\* A timestamp column declared without a server default on updated_at.
server_default_created_only(col, now) ==
    IF col = "updated_at" THEN None ELSE Some(now)

\* server_default=func.now(): the store fills the column at INSERT.
server_default(col, now) == Some(now)

\* A collection attribute: whether it has been loaded, and its members.
EmptyCollection == [ loaded |-> TRUE, items |-> << >> ]
Unloaded == [ loaded |-> FALSE, items |-> << >> ]

\* A constructor that draws the id itself (default_factory=, not insert_default=).
Organization_default_factory_id(name, my_dict) ==
    [ name |-> name, my_dict |-> my_dict, id |-> Some(1),
      created_at |-> None, updated_at |-> None, users |-> EmptyCollection ]

\* Organization(name=..., my_dict=...): id, created_at, updated_at and users
\* are init=False and start unset.
Organization(name, my_dict) ==
    [ name |-> name, my_dict |-> my_dict, id |-> None,
      created_at |-> None, updated_at |-> None, users |-> EmptyCollection ]

\* User(first_name=..., last_name=..., organization=...): id, the timestamps
\* and organization_id are init=False and start unset.
User(first_name, last_name, organization) ==
    [ first_name |-> first_name, last_name |-> last_name, id |-> None,
      created_at |-> None, updated_at |-> None,
      organization_id |-> None, organization |-> Some(organization) ]

\* A relationship with no back_populates: the other side is left alone.
no_back_populates(os, u, o) == os

\* relationship(back_populates="users"): setting u.organization = o appends u
\* to o.users, once.
back_populates(os, u, o) ==
    IF u \in Range(os[o].users.items) THEN os
    ELSE [ os EXCEPT ![o].users.items = Append(@, u) ]

\* A validation model without from_attributes: an ORM object is rejected.
model_validate_no_from_attributes(o) ==
    [ ok |-> FALSE, name |-> << >>, my_dict |-> << >>, users |-> << >> ]

\* Dict[str, str] validation builds a new dict, item by item.
ValidateDict(d) == [ i \in 1 .. Len(d) |-> << d[i][1], d[i][2] >> ]

\* OrganizationPydantic.model_validate(o), from_attributes=True: reads name,
\* my_dict and users off the object.  Reading an unloaded collection outside
\* awaitable_attrs raises, and so does the validation.
model_validate(o) ==
    IF o.users.loaded
    THEN [ ok |-> TRUE, name |-> o.name, my_dict |-> ValidateDict(o.my_dict),
           users |-> o.users.items ]
    ELSE [ ok |-> FALSE, name |-> << >>, my_dict |-> << >>, users |-> << >> ]

----------------------------------------------------------------------------
(* The store: BaseModel.metadata against test.db *)

MetadataTables == { "organizations", "users" }

NoTables == [ tables |-> {}, organizations |-> {}, users |-> {} ]

DropTable(d, t) == [ d EXCEPT !.tables = @ \ { t }, ![t] = {} ]

\* CREATE TABLE is issued only for a table that does not exist yet.
CreateTable(d, t) ==
    IF t \in d.tables THEN d
    ELSE [ d EXCEPT !.tables = @ \cup { t }, ![t] = {} ]

\* A drop that leaves the tables as they are.
drop_nothing(d) == d

\* A drop that removes the referenced table and keeps the referencing one.
drop_organizations_only(d) == DropTable(d, "organizations")

\* metadata.drop_all: users (the referencing table) first, then organizations.
drop_all(d) == DropTable(DropTable(d, "users"), "organizations")

\* metadata.create_all: organizations first, then users.
create_all(d) == CreateTable(CreateTable(d, "organizations"), "users")

OrganizationRow(o, id, now) ==
    [ id |-> Some(id), name |-> o.name, my_dict |-> json_dumps(o.my_dict),
      created_at |-> server_default("created_at", now),
      updated_at |-> server_default("updated_at", now) ]

UserRow(u, id, organization_id, now) ==
    [ id |-> Some(id), first_name |-> u.first_name, last_name |-> u.last_name,
      organization_id |-> organization_id,
      created_at |-> server_default("created_at", now),
      updated_at |-> server_default("updated_at", now) ]

\* The id of organization o once the flush has inserted it.
OrgIdAtFlush(os, pend, ids, o) == IF o \in pend THEN Some(ids[o]) ELSE os[o].id

\* organization_id is copied from the related organization when the user is
\* inserted; organizations are inserted before the users that refer to them.
SyncForeignKey(os, pend, ids, u) ==
    IF u.organization = None THEN None
    ELSE OrgIdAtFlush(os, pend, ids, u.organization[1])

FlushOrgRows(os, pend, ids, now) ==
    { OrganizationRow(os[o], ids[o], now) : o \in pend \cap DOMAIN os }

FlushUserRows(os, us, pend, ids, now) ==
    { UserRow(us[u], ids[u], SyncForeignKey(os, pend, ids, us[u]), now) :
        u \in pend \cap DOMAIN us }

\* The store after the INSERTs of a flush.
Inserted(d, os, us, pend, ids, nowO, nowU) ==
    [ d EXCEPT !.organizations = @ \cup FlushOrgRows(os, pend, ids, nowO),
               !.users = @ \cup FlushUserRows(os, us, pend, ids, nowU) ]

\* Primary keys are unique; id, created_at and organization_id are NOT NULL
\* (updated_at is nullable=True).
IntegrityOK(d) ==
    /\ \A r \in d.organizations : r.id # None /\ r.created_at # None
    /\ \A r \in d.users :
          r.id # None /\ r.created_at # None /\ r.organization_id # None
    /\ \A r1, r2 \in d.organizations : r1.id = r2.id => r1 = r2
    /\ \A r1, r2 \in d.users : r1.id = r2.id => r1 = r2

\* The objects after the flush: the generated id and the foreign key are set
\* on the object; the server-side timestamps are there only when the INSERT
\* fetched them back.
FlushedOrgs(os, pend, ids, nowO, fetched) ==
    [ o \in DOMAIN os |->
        IF o \notin pend THEN os[o]
        ELSE [ os[o] EXCEPT
                 !.id = Some(ids[o]),
                 !.created_at = IF fetched THEN server_default("created_at", nowO) ELSE None,
                 !.updated_at = IF fetched THEN server_default("updated_at", nowO) ELSE None ] ]

FlushedUsers(os, us, pend, ids, nowU, fetched) ==
    [ u \in DOMAIN us |->
        IF u \notin pend THEN us[u]
        ELSE [ us[u] EXCEPT
                 !.id = Some(ids[u]),
                 !.organization_id = SyncForeignKey(os, pend, ids, us[u]),
                 !.created_at = IF fetched THEN server_default("created_at", nowU) ELSE None,
                 !.updated_at = IF fetched THEN server_default("updated_at", nowU) ELSE None ] ]

\* A row of organizations as an object of the session that loaded it; the
\* users collection is not loaded with it.
LoadOrganization(row) ==
    [ name |-> row.name, my_dict |-> json_loads(row.my_dict), id |-> row.id,
      created_at |-> row.created_at, updated_at |-> row.updated_at,
      users |-> Unloaded ]

\* A lazy load with no criterion on the owner.
LazyLoadAllUsers(d, o) == d.users

\* The lazy load of o.users: SELECT ... FROM users WHERE organization_id = o.id
LazyLoadUsers(d, o) == { r \in d.users : r.organization_id = o.id }

\* select(Organization).where(Organization.name.like(pat))
SelectLike(d, pat) == { r \in d.organizations : Like(pat, r.name) }

\* select(Organization).where(Organization.name == name)
SelectNameEq(d, name) == { r \in d.organizations : r.name = name }

\* scalar_one(): exactly one row, or an exception.
ScalarOneError(rows) ==
    IF Cardinality(rows) = 0 THEN "NoResultFound"
    ELSE IF Cardinality(rows) > 1 THEN "MultipleResultsFound"
    ELSE "none"

\* The orders in which a SELECT without ORDER BY may return rows.
Orderings(rows) ==
    { q \in [ 1 .. Cardinality(rows) -> rows ] :
        \A i, j \in 1 .. Cardinality(rows) : q[i] = q[j] => i = j }

----------------------------------------------------------------------------
(* Sessions and exceptions *)

\* A scope that is left without closing what it opened.
LeaveOpen(s) == s

\* Leaving `async with session() as s`, normally or by an exception, closes
\* the session.
ExitScope(s) == [ i \in DOMAIN s |-> IF s[i] = "open" THEN "closed" ELSE s[i] ]

\* Entering `async with get_async_session(engine) as sesh`.
OpenSession(s, i) == [ s EXCEPT ![i] = "open" ]

\* The statements of async_main, in order.
StepOrder ==
    << "create_engine", "drop_all", "create_all", "open1", "new_goldman",
       "new_chase", "add_orgs", "new_alice", "new_bob", "new_dave", "add_users",
       "commit", "exit1", "open2", "select_chase", "print_chase",
       "select_goldman", "await_users", "read_users", "print_users", "validate",
       "print_pydantic", "exit2", "dispose", "done" >>

StepIndex(step) == CHOOSE i \in 1 .. Len(StepOrder) : StepOrder[i] = step

NextStep(step) == StepOrder[StepIndex(step) + 1]

\* An exception handler that goes on with the next statement.
Swallow(step) == NextStep(step)

\* async_main has no try/except: an exception raised in a statement ends it.
Propagate(step) == "error"

\* The statements that execute SQL against the store.
AwaitPoints ==
    { "drop_all", "create_all", "commit", "select_chase", "select_goldman",
      "await_users" }

\* An exception e raised by statement `step`: it leaves the enclosing session
\* scope, the transaction is rolled back, nothing else changes.
Raised(step, e) ==
    /\ pc' = Propagate(step)
    /\ failedAt' = step
    /\ exc' = e
    /\ sess' = ExitScope(sess)
    /\ UNCHANGED << db, prior, engine, pending, orgs, usrs, loaded, users,
                    any_users, goldman_sachs_pydantic, out >>

----------------------------------------------------------------------------
(* What an earlier run leaves in test.db *)

ScriptUsers ==
    ("user_alice" :> User("Alice", "Johnson", "goldman_sachs"))
    @@ ("user_bob" :> User("Bob", "Smith", "goldman_sachs"))
    @@ ("user_dave" :> User("Dave", "Simpson", "chase"))

ScriptOrgs ==
    back_populates(
        back_populates(
            back_populates(
                ("goldman_sachs" :> Organization(GoldmanSachsName, DefaultDict))
                @@ ("chase" :> Organization(JPMorganChaseName, ChaseDict)),
                "user_alice", "goldman_sachs"),
            "user_bob", "goldman_sachs"),
        "user_dave", "chase")

ObjectOrder == << "goldman_sachs", "chase", "user_alice", "user_bob", "user_dave" >>

PreviousRunIds ==
    [ h \in OrgVars \cup UserVars |->
        CHOOSE i \in 1 .. Len(ObjectOrder) : ObjectOrder[i] = h ]

\* test.db at start-up: no file, a run that stopped before its commit, or a
\* run that committed its five records.
PriorStores ==
    { NoTables,
      create_all(NoTables),
      Inserted(create_all(NoTables), ScriptOrgs, ScriptUsers,
               OrgVars \cup UserVars, PreviousRunIds, 1, 1) }

----------------------------------------------------------------------------
(* async_main *)

Init ==
    /\ pc = "create_engine"
    /\ db \in PriorStores
    /\ prior = db
    /\ engine = "none"
    /\ sess = [ i \in 1 .. 2 |-> "unopened" ]
    /\ pending = {}
    /\ orgs = << >>
    /\ usrs = << >>
    /\ loaded = << >>
    /\ users = None
    /\ any_users = None
    /\ goldman_sachs_pydantic = None
    /\ out = << >>
    /\ failedAt = "none"
    /\ exc = "none"

\* line 97
CreateEngine ==
    /\ pc = "create_engine"
    /\ engine' = "created"
    /\ pc' = "drop_all"
    /\ UNCHANGED << db, prior, sess, pending, orgs, usrs, loaded, users,
                    any_users, goldman_sachs_pydantic, out, failedAt, exc >>

\* lines 99-100
DropAll ==
    /\ pc = "drop_all"
    /\ db' = drop_all(db)
    /\ pc' = "create_all"
    /\ UNCHANGED << prior, engine, sess, pending, orgs, usrs, loaded, users,
                    any_users, goldman_sachs_pydantic, out, failedAt, exc >>

\* lines 102-105
CreateAll ==
    /\ pc = "create_all"
    /\ db' = create_all(db)
    /\ pc' = "open1"
    /\ UNCHANGED << prior, engine, sess, pending, orgs, usrs, loaded, users,
                    any_users, goldman_sachs_pydantic, out, failedAt, exc >>

\* line 135
OpenSession1 ==
    /\ pc = "open1"
    /\ sess' = OpenSession(sess, 1)
    /\ pc' = "new_goldman"
    /\ UNCHANGED << db, prior, engine, pending, orgs, usrs, loaded, users,
                    any_users, goldman_sachs_pydantic, out, failedAt, exc >>

\* line 139
ConstructGoldmanSachs ==
    /\ pc = "new_goldman"
    /\ orgs' = orgs @@ ("goldman_sachs" :> Organization(GoldmanSachsName, DefaultDict))
    /\ pc' = "new_chase"
    /\ UNCHANGED << db, prior, engine, sess, pending, usrs, loaded, users,
                    any_users, goldman_sachs_pydantic, out, failedAt, exc >>

\* line 140
ConstructChase ==
    /\ pc = "new_chase"
    /\ orgs' = orgs @@ ("chase" :> Organization(JPMorganChaseName, ChaseDict))
    /\ pc' = "add_orgs"
    /\ UNCHANGED << db, prior, engine, sess, pending, usrs, loaded, users,
                    any_users, goldman_sachs_pydantic, out, failedAt, exc >>

\* line 142
AddOrganizations ==
    /\ pc = "add_orgs"
    /\ pending' = pending \cup { "goldman_sachs", "chase" }
    /\ pc' = "new_alice"
    /\ UNCHANGED << db, prior, engine, sess, orgs, usrs, loaded, users,
                    any_users, goldman_sachs_pydantic, out, failedAt, exc >>

\* u = User(first_name, last_name, organization=o)
ConstructUser(u, first_name, last_name, o) ==
    /\ usrs' = usrs @@ (u :> User(first_name, last_name, o))
    /\ orgs' = back_populates(orgs, u, o)
    /\ UNCHANGED << db, prior, engine, sess, pending, loaded, users,
                    any_users, goldman_sachs_pydantic, out, failedAt, exc >>

\* line 158
ConstructAlice ==
    /\ pc = "new_alice"
    /\ ConstructUser("user_alice", "Alice", "Johnson", "goldman_sachs")
    /\ pc' = "new_bob"

\* line 160
ConstructBob ==
    /\ pc = "new_bob"
    /\ ConstructUser("user_bob", "Bob", "Smith", "goldman_sachs")
    /\ pc' = "new_dave"

\* line 161
ConstructDave ==
    /\ pc = "new_dave"
    /\ ConstructUser("user_dave", "Dave", "Simpson", "chase")
    /\ pc' = "add_users"

\* line 163
AddUsers ==
    /\ pc = "add_users"
    /\ pending' = pending \cup { "user_alice", "user_bob", "user_dave" }
    /\ pc' = "commit"
    /\ UNCHANGED << db, prior, engine, sess, orgs, usrs, loaded, users,
                    any_users, goldman_sachs_pydantic, out, failedAt, exc >>

\* uuid.uuid4() for every object of the flush: distinct values.
FreshIds(pend) ==
    { m \in [ pend -> UUIDs ] : \A a, b \in pend : m[a] = m[b] => a = b }

\* line 165: the flush (ids, INSERTs, foreign keys) and the COMMIT.
Commit ==
    /\ pc = "commit"
    /\ \E ids \in FreshIds(pending), nowO \in Clock, fetched \in BOOLEAN :
         \E nowU \in nowO .. MaxClock :
           LET d == Inserted(db, orgs, usrs, pending, ids, nowO, nowU)
           IN  IF MetadataTables \subseteq db.tables /\ IntegrityOK(d)
               THEN /\ db' = d
                    /\ orgs' = FlushedOrgs(orgs, pending, ids, nowO, fetched)
                    /\ usrs' = FlushedUsers(orgs, usrs, pending, ids, nowU, fetched)
                    /\ pending' = {}
                    /\ pc' = "exit1"
                    /\ UNCHANGED << prior, engine, sess, loaded, users, any_users,
                                    goldman_sachs_pydantic, out, failedAt, exc >>
               ELSE Raised("commit",
                           IF MetadataTables \subseteq db.tables
                           THEN "IntegrityError" ELSE "OperationalError")

\* the end of the block of line 135
ExitSession1 ==
    /\ pc = "exit1"
    /\ sess' = ExitScope(sess)
    /\ pc' = "open2"
    /\ UNCHANGED << db, prior, engine, pending, orgs, usrs, loaded, users,
                    any_users, goldman_sachs_pydantic, out, failedAt, exc >>

\* line 168
OpenSession2 ==
    /\ pc = "open2"
    /\ sess' = OpenSession(sess, 2)
    /\ pc' = "select_chase"
    /\ UNCHANGED << db, prior, engine, pending, orgs, usrs, loaded, users,
                    any_users, goldman_sachs_pydantic, out, failedAt, exc >>

\* v = (await session.execute(select ...)).scalar_one()
SelectOne(step, v, rows) ==
    IF "organizations" \notin db.tables
    THEN Raised(step, "OperationalError")
    ELSE IF ScalarOneError(rows) # "none"
    THEN Raised(step, ScalarOneError(rows))
    ELSE /\ loaded' = (v :> LoadOrganization(CHOOSE r \in rows : TRUE)) @@ loaded
         /\ pc' = NextStep(step)
         /\ UNCHANGED << db, prior, engine, sess, pending, orgs, usrs, users,
                         any_users, goldman_sachs_pydantic, out, failedAt, exc >>

\* lines 171-173
SelectChase ==
    /\ pc = "select_chase"
    /\ SelectOne("select_chase", "chase", SelectLike(db, ChasePattern))

\* line 175
PrintChase ==
    /\ pc = "print_chase"
    /\ out' = Append(out, [ line |-> 175, value |-> loaded["chase"].my_dict ])
    /\ pc' = "select_goldman"
    /\ UNCHANGED << db, prior, engine, sess, pending, orgs, usrs, loaded, users,
                    any_users, goldman_sachs_pydantic, failedAt, exc >>

\* lines 177-179
SelectGoldmanSachs ==
    /\ pc = "select_goldman"
    /\ SelectOne("select_goldman", "goldman_sachs", SelectNameEq(db, GoldmanSachsName))

\* A row of users as an object of the session that loaded it.
LoadUser(row) ==
    [ first_name |-> row.first_name, last_name |-> row.last_name, id |-> row.id,
      created_at |-> row.created_at, updated_at |-> row.updated_at,
      organization_id |-> row.organization_id ]

\* line 183: users = await goldman_sachs.awaitable_attrs.users
AwaitUsers ==
    /\ pc = "await_users"
    /\ IF "users" \notin db.tables
       THEN Raised("await_users", "OperationalError")
       ELSE \E q \in Orderings(LazyLoadUsers(db, loaded["goldman_sachs"])) :
              LET items == [ i \in 1 .. Len(q) |-> LoadUser(q[i]) ]
              IN  /\ loaded' = [ loaded EXCEPT !["goldman_sachs"].users =
                                   [ loaded |-> TRUE, items |-> items ] ]
                  /\ users' = Some(items)
                  /\ pc' = "read_users"
                  /\ UNCHANGED << db, prior, engine, sess, pending, orgs, usrs,
                                  any_users, goldman_sachs_pydantic, out,
                                  failedAt, exc >>

\* line 184: any_users = goldman_sachs.users, a plain attribute read
ReadUsers ==
    /\ pc = "read_users"
    /\ IF loaded["goldman_sachs"].users.loaded
       THEN /\ any_users' = Some(loaded["goldman_sachs"].users.items)
            /\ pc' = "print_users"
            /\ UNCHANGED << db, prior, engine, sess, pending, orgs, usrs, loaded,
                            users, goldman_sachs_pydantic, out, failedAt, exc >>
       ELSE Raised("read_users", "MissingGreenlet")

\* line 186
PrintUsers ==
    /\ pc = "print_users"
    /\ out' = Append(out, [ line |-> 186, value |-> << users, any_users >> ])
    /\ pc' = "validate"
    /\ UNCHANGED << db, prior, engine, sess, pending, orgs, usrs, loaded, users,
                    any_users, goldman_sachs_pydantic, failedAt, exc >>

\* line 189
Validate ==
    /\ pc = "validate"
    /\ LET r == model_validate(loaded["goldman_sachs"])
       IN  IF r.ok
           THEN /\ goldman_sachs_pydantic' = Some(r)
                /\ pc' = "print_pydantic"
                /\ UNCHANGED << db, prior, engine, sess, pending, orgs, usrs,
                                loaded, users, any_users, out, failedAt, exc >>
           ELSE Raised("validate", "ValidationError")

\* line 190
PrintPydantic ==
    /\ pc = "print_pydantic"
    /\ out' = Append(out, [ line |-> 190, value |-> goldman_sachs_pydantic ])
    /\ pc' = "exit2"
    /\ UNCHANGED << db, prior, engine, sess, pending, orgs, usrs, loaded, users,
                    any_users, goldman_sachs_pydantic, failedAt, exc >>

\* the end of the block of line 168
ExitSession2 ==
    /\ pc = "exit2"
    /\ sess' = ExitScope(sess)
    /\ pc' = "dispose"
    /\ UNCHANGED << db, prior, engine, pending, orgs, usrs, loaded, users,
                    any_users, goldman_sachs_pydantic, out, failedAt, exc >>

\* line 193
Dispose ==
    /\ pc = "dispose"
    /\ engine' = "disposed"
    /\ pc' = "done"
    /\ UNCHANGED << db, prior, sess, pending, orgs, usrs, loaded, users,
                    any_users, goldman_sachs_pydantic, out, failedAt, exc >>

\* The driver fails in a statement that executes SQL (the file cannot be
\* opened, the database is locked, the disk is full).
IOFailure ==
    /\ pc \in AwaitPoints
    /\ Raised(pc, "OperationalError")

Next ==
    \/ CreateEngine
    \/ DropAll
    \/ CreateAll
    \/ OpenSession1
    \/ ConstructGoldmanSachs
    \/ ConstructChase
    \/ AddOrganizations
    \/ ConstructAlice
    \/ ConstructBob
    \/ ConstructDave
    \/ AddUsers
    \/ Commit
    \/ ExitSession1
    \/ OpenSession2
    \/ SelectChase
    \/ PrintChase
    \/ SelectGoldmanSachs
    \/ AwaitUsers
    \/ ReadUsers
    \/ PrintUsers
    \/ Validate
    \/ PrintPydantic
    \/ ExitSession2
    \/ Dispose
    \/ IOFailure

Spec == Init /\ [][Next]_vars

----------------------------------------------------------------------------
(* Where the run is *)

\* The statement the run is at, or the one it failed in.
Position == IF pc = "error" THEN StepIndex(failedAt) ELSE StepIndex(pc)

\* Statement `step` has run to its end.
After(step) == Position > StepIndex(step)

IsNone(v) == v = None

----------------------------------------------------------------------------
(* C1 *)

\* C1: once the commit of the first session has succeeded, both organizations
\* and all three users are rows with a generated id and with created_at and
\* updated_at set, and the objects carry the same ids; no row of the store,
\* at any time, has a null id or a null created_at.
C1_IdsAndTimestampsAfterCommit ==
    /\ \A r \in db.organizations : ~IsNone(r.id) /\ ~IsNone(r.created_at)
    /\ \A r \in db.users : ~IsNone(r.id) /\ ~IsNone(r.created_at)
    /\ After("commit") =>
         /\ Cardinality(db.organizations) = 2
         /\ Cardinality(db.users) = 3
         /\ \A r \in db.organizations : ~IsNone(r.updated_at)
         /\ \A r \in db.users : ~IsNone(r.updated_at)
         /\ \A o \in OrgVars :
              /\ ~IsNone(orgs[o].id)
              /\ \E r \in db.organizations : r.id = orgs[o].id /\ r.name = orgs[o].name
         /\ \A u \in UserVars :
              /\ ~IsNone(usrs[u].id)
              /\ \E r \in db.users :
                   r.id = usrs[u].id /\ r.first_name = usrs[u].first_name

C1_Witness ==
    /\ pc = "exit1"
    /\ Cardinality(db.organizations) = 2
    /\ Cardinality(db.users) = 3
    /\ \A o \in OrgVars : ~IsNone(orgs[o].id)

----------------------------------------------------------------------------
(* C2 *)

UsersOf(o) == { u \in DOMAIN usrs : usrs[u].organization = Some(o) }

\* C2 as stated: the reloaded organization's users are the three inserted
\* users, read lazily or directly.
C2_ThreeUsersReturned ==
    After("read_users") =>
        /\ users = any_users
        /\ Len(users[1]) = 3
        /\ { x.id : x \in Range(users[1]) } = { usrs[u].id : u \in UserVars }

\* C2, amended: the reloaded goldman_sachs.users holds exactly the two users
\* inserted with organization=goldman_sachs (Alice and Bob), each once; the
\* user of the other organization (Dave) is not in it; the lazy read and the
\* direct read give the same list.
C2_UsersOfTheOrganizationReturned ==
    /\ After("await_users") =>
         /\ ~IsNone(users)
         /\ Len(users[1]) = 2
         /\ { x.id : x \in Range(users[1]) }
              = { usrs[u].id : u \in UsersOf("goldman_sachs") }
         /\ { x.first_name : x \in Range(users[1]) } = { "Alice", "Bob" }
         /\ \A x \in Range(users[1]) : x.organization_id = orgs["goldman_sachs"].id
         /\ \A x \in Range(users[1]) : x.id # usrs["user_dave"].id
    /\ After("read_users") => any_users = users

C2_Witness ==
    /\ pc = "print_users"
    /\ users = any_users
    /\ Len(users[1]) = 2
    /\ Cardinality(db.users) = 3

----------------------------------------------------------------------------
(* C3 *)

\* needle occurs in s, letters compared without regard to case
ContainsIgnoringCase(s, needle) ==
    \E i \in 1 .. (Len(s) - Len(needle) + 1) :
        LowerStr(SubSeq(s, i, i + Len(needle) - 1)) = LowerStr(needle)

\* C3: after the commit, name LIKE '%chase%' matches a row exactly when its
\* name contains "chase" in any letter case; it matches one row, 'JPMorgan
\* Chase', and not 'Goldman Sachs'; scalar_one raises neither NoResultFound
\* nor MultipleResultsFound and the object loaded is 'JPMorgan Chase'.
C3_LikeChaseMatchesOnlyJPMorganChase ==
    /\ \A r \in db.organizations :
         Like(ChasePattern, r.name) <=> ContainsIgnoringCase(r.name, << "c", "h", "a", "s", "e" >>)
    /\ After("commit") =>
         LET rows == SelectLike(db, ChasePattern)
         IN  /\ Cardinality(rows) = 1
             /\ \A r \in rows : r.name = JPMorganChaseName
             /\ \E r \in db.organizations :
                  r.name = GoldmanSachsName /\ r \notin rows
    /\ exc \notin { "NoResultFound", "MultipleResultsFound" }
    /\ After("select_chase") => loaded["chase"].name = JPMorganChaseName

C3_Witness ==
    /\ pc = "print_chase"
    /\ loaded["chase"].name = JPMorganChaseName
    /\ Cardinality(db.organizations) = 2

----------------------------------------------------------------------------
(* C4 *)

\* The projection p of loaded organization v has the name and the mapping
\* that were persisted for it.
ProjectionPreserves(v, p) ==
    /\ p.ok
    /\ p.name = orgs[v].name
    /\ DictEq(p.my_dict, orgs[v].my_dict)

\* The row of loaded organization v still holds what was loaded from it.
RowUnchanged(v) ==
    \E r \in db.organizations :
        /\ r.id = loaded[v].id
        /\ r.name = loaded[v].name
        /\ DictEq(json_loads(r.my_dict), loaded[v].my_dict)
        /\ r.created_at = loaded[v].created_at
        /\ r.updated_at = loaded[v].updated_at

\* C4 as stated: model_validate of every loaded organization, the one created
\* with {} and the one created with {'test': 'foobar'}, yields an object with
\* the persisted name and my_dict.
C4_EveryLoadedOrganizationProjects ==
    \A v \in DOMAIN loaded : ProjectionPreserves(v, model_validate(loaded[v]))

\* C4, amended: every loaded organization has the persisted name and my_dict;
\* model_validate of a loaded organization whose users collection has been
\* loaded (goldman_sachs, created with {}) yields an object with that name
\* and my_dict, and the row is as it was; model_validate of a loaded
\* organization whose users collection is still unloaded (chase, created
\* with {'test': 'foobar'}) yields no object.
C4_LoadedUsersOrganizationProjects ==
    /\ \A v \in DOMAIN loaded :
         /\ loaded[v].name = orgs[v].name
         /\ DictEq(loaded[v].my_dict, orgs[v].my_dict)
         /\ RowUnchanged(v)
         /\ loaded[v].users.loaded <=> model_validate(loaded[v]).ok
         /\ loaded[v].users.loaded =>
              ProjectionPreserves(v, model_validate(loaded[v]))
    /\ After("validate") =>
         /\ ~IsNone(goldman_sachs_pydantic)
         /\ ProjectionPreserves("goldman_sachs", goldman_sachs_pydantic[1])
         /\ ~loaded["chase"].users.loaded
    /\ exc # "ValidationError"

C4_Witness ==
    /\ pc = "print_pydantic"
    /\ ~IsNone(goldman_sachs_pydantic)
    /\ goldman_sachs_pydantic[1].name = GoldmanSachsName
    /\ goldman_sachs_pydantic[1].my_dict = DefaultDict
    /\ loaded["chase"].my_dict = ChaseDict

----------------------------------------------------------------------------
(* C5 *)

\* C5: in every state of the store, every row of users has a non-null
\* organization_id that is the id of exactly one row of organizations.
C5_EveryUserRowHasOneOrganization ==
    \A u \in db.users :
        /\ ~IsNone(u.organization_id)
        /\ Cardinality({ o \in db.organizations : o.id = u.organization_id }) = 1

C5_Witness ==
    /\ pc = "exit1"
    /\ Cardinality(db.users) = 3
    /\ prior.users # {}

----------------------------------------------------------------------------
(* C6 *)

\* C6: create_engine_and_tables drops before it creates: when the create
\* starts no mapped table exists, and from its return up to the first insert
\* both tables exist and are empty, whatever test.db held at start-up.
C6_DropThenCreateLeavesEmptyTables ==
    /\ pc = "create_all" => db.tables \cap MetadataTables = {}
    /\ (pc # "error" /\ Position > StepIndex("create_all")
                     /\ Position <= StepIndex("commit")) =>
         /\ MetadataTables \subseteq db.tables
         /\ db.organizations = {}
         /\ db.users = {}

C6_Witness ==
    /\ pc = "commit"
    /\ prior.organizations # {}
    /\ prior.users # {}
    /\ MetadataTables \subseteq db.tables
    /\ db.organizations = {}
    /\ db.users = {}

----------------------------------------------------------------------------
(* C7 *)

Unassigned(x) == IsNone(x.id) /\ IsNone(x.created_at) /\ IsNone(x.updated_at)

\* C7: an object that has been constructed, or constructed and added, has no
\* id, no created_at and no updated_at (and a user no organization_id) as
\* long as the commit has not run; once it has run, every object has its id.
C7_IdAssignedOnlyAtFlush ==
    /\ ~After("commit") =>
         /\ \A o \in DOMAIN orgs : Unassigned(orgs[o])
         /\ \A u \in DOMAIN usrs :
              Unassigned(usrs[u]) /\ IsNone(usrs[u].organization_id)
    /\ After("commit") =>
         /\ \A o \in DOMAIN orgs : ~IsNone(orgs[o].id)
         /\ \A u \in DOMAIN usrs : ~IsNone(usrs[u].id)

C7_Witness ==
    /\ pc = "commit"
    /\ pending = OrgVars \cup UserVars
    /\ \A o \in OrgVars : Unassigned(orgs[o])
    /\ \A u \in UserVars : Unassigned(usrs[u])

----------------------------------------------------------------------------
(* C8 *)

Between(first, last) ==
    pc # "error" /\ StepIndex(first) <= Position /\ Position <= StepIndex(last)

\* C8: a session is open exactly while the run is inside its `async with`
\* block; when the block is left, normally or by an exception, the session
\* is closed; at most one session is open, and the read session is opened
\* only after the write session was closed.
C8_SessionOpenOnlyInsideItsBlock ==
    /\ sess[1] = "open" <=> Between("new_goldman", "exit1")
    /\ sess[2] = "open" <=> Between("select_chase", "exit2")
    /\ Cardinality({ i \in DOMAIN sess : sess[i] = "open" }) <= 1
    /\ sess[2] # "unopened" => sess[1] = "closed"
    /\ pc \in { "error", "done" } => \A i \in DOMAIN sess : sess[i] # "open"

C8_Witness ==
    /\ pc = "error"
    /\ failedAt = "select_chase"
    /\ sess[1] = "closed"
    /\ sess[2] = "closed"

----------------------------------------------------------------------------
(* C9 *)

PrintSteps == { "print_chase", "print_users", "print_pydantic" }

\* The statement that loads variable v in the read session.
SelectStepOf(v) == IF v = "chase" THEN "select_chase" ELSE "select_goldman"

\* C9: an exception raised in a statement ends the run in the error outcome
\* at that statement: what has been printed, loaded and projected is what
\* the statements before it did, the engine is not disposed, and no further
\* step is taken.
C9_FailureEndsTheRun ==
    /\ failedAt # "none" <=> pc = "error"
    /\ exc # "none" <=> pc = "error"
    /\ pc = "error" =>
         /\ Len(out) = Cardinality({ p \in PrintSteps : StepIndex(p) < StepIndex(failedAt) })
         /\ DOMAIN loaded =
              { v \in OrgVars : StepIndex(SelectStepOf(v)) < StepIndex(failedAt) }
         /\ IsNone(users) <=> StepIndex(failedAt) <= StepIndex("await_users")
         /\ IsNone(any_users) <=> StepIndex(failedAt) <= StepIndex("read_users")
         /\ IsNone(goldman_sachs_pydantic) <=> StepIndex(failedAt) <= StepIndex("validate")
         /\ StepIndex(failedAt) <= StepIndex("commit") =>
              db.organizations \subseteq prior.organizations /\ db.users \subseteq prior.users
         /\ engine # "disposed"
         /\ ~ENABLED Next

C9_Witness ==
    /\ pc = "error"
    /\ failedAt = "select_goldman"
    /\ exc = "OperationalError"
    /\ Len(out) = 1
    /\ DOMAIN loaded = { "chase" }

----------------------------------------------------------------------------
(* C10 *)

\* The places <<o, i>> where user u stands in a users collection.
Occurrences(u) ==
    UNION { { << o, i >> : i \in { j \in 1 .. Len(orgs[o].users.items) :
                                     orgs[o].users.items[j] = u } } :
            o \in DOMAIN orgs }

====
